---- MODULE Spec2Model ----
(***************************************************************************)
(* Review ledger of the gowithflow backend: the Review collection with its *)
(* unique (job, reviewer, recipient) index, the request handlers of        *)
(* controllers/reviewController.js that create, change and delete reviews, *)
(* the issue handlers of the same file, and the admin handlers of          *)
(* controllers/adminController.js that touch reviews, user roles and the   *)
(* isActive flag of an account.                                            *)
(*                                                                         *)
(* Conventions.  A number of a request body is written in tenths (45 is    *)
(* 4.5, 50 is 5) so that parseInt's truncation shows; a stored score is a  *)
(* whole number.  A comment is modelled by its trimmed length.  A request  *)
(* handler runs from one await to the next without interruption, so a      *)
(* handler is one action, except where two requests racing between two     *)
(* awaits is the point (createReview between findOne and create,           *)
(* markReviewAsHelpful between findById and save).                         *)
(***************************************************************************)
EXTENDS Integers, Sequences, FiniteSets, TLC

VARIABLES
    userRole,       \* User collection: _id -> role
    reviews,        \* Review collection: the set of stored documents
    nextId,         \* the next fresh Review _id
    pc,             \* per request slot: where its handler stands
    req,            \* per request slot: the request in flight
    last,           \* the last exchange completed: a request and its response
    roleChanges,    \* number of role changes made so far
    isActive,       \* User collection: _id -> isActive
    issues          \* Issue collection: the set of stored documents

vars == <<userRole, reviews, nextId, pc, req, last, roleChanges, isActive, issues>>

----------------------------------------------------------------------------
(* Bounds *)

MaxReviews == 2

MaxRoleChanges == 1

\* saves of helpfulVotes a review takes
MaxToggles == 3

\* the clock: new Date() is a tick from 1 to MaxTime
MaxTime == 2

\* responses an issue takes, internal notes an issue takes
MaxResponses == 2

MaxNotes == 1

----------------------------------------------------------------------------
(* The world around the ledger: users and jobs *)

Users == {"c", "f", "x", "a"}

\* a well-formed id that names no document
Ghost == "ghost"

\* null / an unset reference
Null == "null"

InitRole == [u \in Users |-> CASE u = "c" -> "client"
                               [] u = "f" -> "freelancer"
                               [] u = "x" -> "client"
                               [] OTHER   -> "admin"]

Roles == {"client", "freelancer", "admin"}

\* Job documents, client and hiredFreelancer populated (null when unset).
Job == [J1 |-> [status |-> "completed",   client |-> "c", hiredFreelancer |-> "f",  title |-> "J1"],
        J2 |-> [status |-> "in-progress", client |-> "c", hiredFreelancer |-> "f",  title |-> "J2"],
        J3 |-> [status |-> "completed",   client |-> "c", hiredFreelancer |-> Null, title |-> "J3"],
        J4 |-> [status |-> "open",        client |-> "c", hiredFreelancer |-> Null, title |-> "J4"]]

JobIds == DOMAIN Job

\* Job.findById(jobId).populate('client hiredFreelancer')
JobfindById(jobId) ==
    IF jobId \in JobIds THEN Job[jobId] ELSE [status |-> Null, client |-> Null, hiredFreelancer |-> Null, title |-> Null]

JobExists(jobId) == jobId \in JobIds

\* User.findById(id): whether a document comes back
UserfindById(id) == id \in Users

----------------------------------------------------------------------------
(* JavaScript values of a request body *)

Undef == [t |-> "undefined", v |-> 0]

Num(tenths) == [t |-> "number", v |-> tenths]

NaN == [t |-> "NaN", v |-> 0]

\* parseInt(x) of a non-negative number or undefined; the result in units
parseInt(x) ==
    IF x.t = "number" THEN [t |-> "number", v |-> x.v \div 10] ELSE NaN

\* a || b on numbers: undefined, 0 and NaN are falsy
OrElse(a, b) ==
    IF a.t = "number" /\ a.v # 0 THEN a ELSE b

----------------------------------------------------------------------------
(* Responses *)

\* sent: the Notification documents the handler created on its way
Response(status, message) == [status |-> status, message |-> message, review |-> 0, sent |-> {}]

NoResponse == Response(0, "none")

\* the handler has not returned: it goes on to its next statement
Continue == Response(0, "continue")

MsgJobNotFound == "Job not found"

MsgRecipientNotFound == "Recipient user not found"

MsgNotCompleted == "You can only review completed jobs"

MsgNoParties == "Job must have both a client and hired freelancer to submit reviews"

MsgNotParty == "You must be either the client or the hired freelancer to submit a review"

MsgAlreadyReviewed == "You have already submitted a review for this job"

MsgValidation == "Review validation failed"

MsgNotifyFailed == "Notification validation failed"

MsgCreated == "Review submitted successfully"

----------------------------------------------------------------------------
(* Review documents *)

Categories == {"communication", "qualityOfWork", "valueForMoney", "expertise", "professionalism"}

\* a score path declared with min: 1 and no max
ScoreValid_NoMax(x) == x.t = "number" /\ x.v >= 1

\* reviewSchema's validators on the document handed to Review.create
ScoreValid(x) == x.t = "number" /\ x.v >= 1 /\ x.v <= 5

CommentMinLength == 10

CommentValid(len) == len >= CommentMinLength

reviewSchemaValid(doc) ==
    /\ ScoreValid(doc.rating)
    /\ CommentValid(doc.comment)
    /\ \A k \in Categories : ScoreValid(doc[k])
    /\ doc.type \in {"client-to-freelancer", "freelancer-to-client"}

\* the unique index { job: 1, reviewer: 1, recipient: 1 }
Triple(r) == <<r.job, r.reviewer, r.recipient>>

\* the index declared without { unique: true }
UniqueIndexRejects_NotUnique(rvs, doc) == FALSE

UniqueIndexRejects(rvs, doc) == \E r \in rvs : Triple(r) = Triple(doc)

\* Review.findOne({ job, reviewer, recipient })
ReviewfindOne(rvs, job, reviewer, recipient) ==
    {r \in rvs : r.job = job /\ r.reviewer = reviewer /\ r.recipient = recipient}

\* Review.findById(id)
ReviewfindById(rvs, id) == {r \in rvs : r.id = id}

----------------------------------------------------------------------------
(* Request slots *)

Procs == {"p1", "p2"}

Request(op, user, body) ==
    [op |-> op, user |-> user, role |-> userRole[user], body |-> body]

NoRequest == [op |-> "none", user |-> Null, role |-> Null, body |-> Null]

\* a handler returns response r to request rq
Reply(rq, r) == last' = [req |-> rq, res |-> r]

\* slot p is free again
Release(p) ==
    /\ pc' = [pc EXCEPT ![p] = "idle"]
    /\ req' = [req EXCEPT ![p] = NoRequest]

InFlight == Cardinality({p \in Procs : pc[p] = "create"})

----------------------------------------------------------------------------
(* createReview *)

isClient(rq) == rq.role = "client"

isFreelancer(rq) == rq.role = "freelancer"

\* a review type taken from the request body when it has one
reviewType_FromBody(rq) ==
    IF rq.body.type # "undefined" THEN rq.body.type
    ELSE IF rq.role = "client" THEN "client-to-freelancer" ELSE "freelancer-to-client"

reviewType(rq) ==
    IF isClient(rq) THEN "client-to-freelancer" ELSE "freelancer-to-client"

\* A check of a handler: whether it fails, and the response it then returns.
\* The handler returns at the first check that fails.
FirstFailure(checks) ==
    IF \E i \in 1..Len(checks) : checks[i][1]
    THEN checks[CHOOSE i \in 1..Len(checks) :
                    checks[i][1] /\ \A j \in 1..(i - 1) : ~checks[j][1]][2]
    ELSE Continue

\* if (!job)
JobCheck(rq) ==
    <<~JobExists(rq.body.jobId), Response(404, MsgJobNotFound)>>

\* if (!recipientUser)
RecipientCheck(rq) ==
    <<~UserfindById(rq.body.recipient), Response(404, MsgRecipientNotFound)>>

\* if (job.status !== 'completed')
StatusCheck(rq) ==
    <<JobfindById(rq.body.jobId).status # "completed", Response(400, MsgNotCompleted)>>

\* if (!job.client || !job.hiredFreelancer)
PartiesCheck(rq) ==
    <<JobfindById(rq.body.jobId).client = Null \/ JobfindById(rq.body.jobId).hiredFreelancer = Null,
      Response(400, MsgNoParties)>>

\* if (!isClient && !isFreelancer)
RoleCheck(rq) ==
    <<~isClient(rq) /\ ~isFreelancer(rq), Response(403, MsgNotParty)>>

\* if (existingReview)
ExistingCheck(rq, rvs) ==
    <<ReviewfindOne(rvs, rq.body.jobId, rq.user, rq.body.recipient) # {},
      Response(400, MsgAlreadyReviewed)>>

\* createReview without the test of job.status
createReviewChecks_NoStatusCheck(rq, rvs) ==
    FirstFailure(<<JobCheck(rq), RecipientCheck(rq), PartiesCheck(rq),
                   RoleCheck(rq), ExistingCheck(rq, rvs)>>)

\* createReview without the test of req.user.role
createReviewChecks_NoRoleCheck(rq, rvs) ==
    FirstFailure(<<JobCheck(rq), RecipientCheck(rq), StatusCheck(rq), PartiesCheck(rq),
                   ExistingCheck(rq, rvs)>>)

\* createReview testing the role before it looks anything up
createReviewChecks_RoleFirst(rq, rvs) ==
    FirstFailure(<<RoleCheck(rq), JobCheck(rq), RecipientCheck(rq), StatusCheck(rq),
                   PartiesCheck(rq), ExistingCheck(rq, rvs)>>)

\* the checks of createReview up to the advisory findOne, in the code's order
createReviewChecks(rq, rvs) ==
    FirstFailure(<<JobCheck(rq), RecipientCheck(rq), StatusCheck(rq), PartiesCheck(rq),
                   RoleCheck(rq), ExistingCheck(rq, rvs)>>)

\* Review.create given the recipient as the reviewer and the reviewer as the
\* recipient
createReviewDoc_Swapped(rq) ==
    LET body == rq.body
    IN  [job             |-> body.jobId,
         reviewer        |-> body.recipient,
         recipient       |-> rq.user,
         rating          |-> parseInt(body.rating),
         comment         |-> body.comment,
         communication   |-> parseInt(OrElse(body.communication, body.rating)),
         qualityOfWork   |-> parseInt(OrElse(body.qualityOfWork, body.rating)),
         valueForMoney   |-> parseInt(OrElse(body.valueForMoney, body.rating)),
         expertise       |-> parseInt(OrElse(body.expertise, body.rating)),
         professionalism |-> parseInt(OrElse(body.professionalism, body.rating)),
         type            |-> IF rq.role = "client" THEN "client-to-freelancer" ELSE "freelancer-to-client",
         isPublic        |-> body.isPublic # "false"]

\* the object handed to Review.create
createReviewDoc(rq) ==
    LET body == rq.body
    IN  [job             |-> body.jobId,
         reviewer        |-> rq.user,
         recipient       |-> body.recipient,
         rating          |-> parseInt(body.rating),
         comment         |-> body.comment,
         communication   |-> parseInt(OrElse(body.communication, body.rating)),
         qualityOfWork   |-> parseInt(OrElse(body.qualityOfWork, body.rating)),
         valueForMoney   |-> parseInt(OrElse(body.valueForMoney, body.rating)),
         expertise       |-> parseInt(OrElse(body.expertise, body.rating)),
         professionalism |-> parseInt(OrElse(body.professionalism, body.rating)),
         type            |-> reviewType(rq),
         isPublic        |-> body.isPublic # "false"]

\* the stored document of a valid object: its scores as whole numbers, the
\* schema's defaults for the paths createReview leaves out (reportedAt 0: no
\* date), and mongoose's version key __v
StoredReview(doc, id) ==
    [id              |-> id,
     job             |-> doc.job,
     reviewer        |-> doc.reviewer,
     recipient       |-> doc.recipient,
     rating          |-> doc.rating.v,
     comment         |-> doc.comment,
     communication   |-> doc.communication.v,
     qualityOfWork   |-> doc.qualityOfWork.v,
     valueForMoney   |-> doc.valueForMoney.v,
     expertise       |-> doc.expertise.v,
     professionalism |-> doc.professionalism.v,
     type            |-> doc.type,
     isPublic        |-> doc.isPublic,
     helpfulVotes    |-> <<>>,
     version         |-> 0,
     isReported      |-> FALSE,
     reportReason    |-> Null,
     reportedBy      |-> Null,
     reportedAt      |-> 0]

\* the error MongoDB raises for the schema's unique index
DuplicateKeyError ==
    [code |-> 11000, keyPattern |-> {"job", "reviewer", "recipient"}, legacy |-> FALSE]

\* a catch that re-throws whatever Review.create threw
createReviewCatch_Rethrow(error) ==
    Response(500, IF error.code = 11000 THEN "E11000 duplicate key error" ELSE error.message)

\* the catch around Review.create
createReviewCatch(error) ==
    IF error.code = 11000
    THEN IF error.keyPattern \cap {"job", "reviewer", "recipient"} # {}
         THEN Response(400, MsgAlreadyReviewed)
         ELSE IF error.legacy
              THEN Response(500, "Database configuration issue. Please contact support. (Legacy index conflict)")
              ELSE Response(400, "Duplicate review detected")
    ELSE Response(500, error.message)

NewReviewNotification(rq, id) ==
    [recipient |-> rq.body.recipient, type |-> "new-review", review |-> id]

\* createReview from Review.create to its response
createReviewCreate(rq, notifyOk) ==
    LET doc == createReviewDoc(rq)
    IN  IF ~reviewSchemaValid(doc)
        THEN /\ Reply(rq, createReviewCatch([code |-> 0, message |-> MsgValidation]))
             /\ UNCHANGED <<reviews, nextId>>
        ELSE IF UniqueIndexRejects(reviews, doc)
        THEN /\ Reply(rq, createReviewCatch(DuplicateKeyError))
             /\ UNCHANGED <<reviews, nextId>>
        ELSE /\ reviews' = reviews \cup {StoredReview(doc, nextId)}
             /\ nextId' = nextId + 1
             /\ IF notifyOk
                THEN Reply(rq, [Response(201, MsgCreated) EXCEPT
                                      !.review = nextId,
                                      !.sent = {NewReviewNotification(rq, nextId)}])
                ELSE Reply(rq, Response(500, MsgNotifyFailed))

\* a request enters createReview and runs to the await of Review.findOne
createReviewBegin(p, u, body) ==
    LET rq  == Request("createReview", u, body)
        pre == createReviewChecks(rq, reviews)
    IN  /\ pc[p] = "idle"
        /\ IF pre # Continue
           THEN Reply(rq, pre) /\ UNCHANGED <<pc, req>>
           ELSE /\ nextId + InFlight <= MaxReviews
                /\ pc' = [pc EXCEPT ![p] = "create"]
                /\ req' = [req EXCEPT ![p] = rq]
                /\ UNCHANGED last
        /\ UNCHANGED <<isActive, issues, userRole, reviews, nextId, roleChanges>>

\* the request resumes after findOne: Review.create, populate, notify, respond
createReviewEnd(p) ==
    /\ pc[p] = "create"
    /\ \E notifyOk \in BOOLEAN : createReviewCreate(req[p], notifyOk)
    /\ Release(p)
    /\ UNCHANGED <<isActive, issues, userRole, roleChanges>>

\* the whole handler, no other request in between
createReview(u, body) ==
    LET rq  == Request("createReview", u, body)
        pre == createReviewChecks(rq, reviews)
    IN  /\ IF pre # Continue
           THEN Reply(rq, pre) /\ UNCHANGED <<reviews, nextId>>
           ELSE /\ nextId + InFlight <= MaxReviews
                /\ \E notifyOk \in BOOLEAN : createReviewCreate(rq, notifyOk)
        /\ UNCHANGED <<isActive, issues, userRole, pc, req, roleChanges>>

----------------------------------------------------------------------------
(* The other handlers of a review.  Each finds the review by its _id first. *)

ReviewIds == 1..MaxReviews

TheReview(id) == CHOOSE r \in reviews : r.id = id

\* review.save(): the stored document with this _id is replaced
Save(r) == (reviews \ ReviewfindById(reviews, r.id)) \cup {r}

MsgReviewNotFound == "Review not found"

\* updateReview; tooOld is the outcome of review.createdAt < thirtyDaysAgo.
\* body.categories says whether the body holds a truthy communication, quality,
\* expertise, deadlineAdherence or overallExperience: the handler then assigns
\* to review.categories.<name>, and reviewSchema has no path categories
updateReview(u, id, body, tooOld, notifyOk) ==
    LET rq == Request("updateReview", u, [id |-> id] @@ body)
    IN  /\ UNCHANGED <<isActive, issues, userRole, nextId, pc, req, roleChanges>>
        /\ IF ReviewfindById(reviews, id) = {}
           THEN Reply(rq, Response(404, MsgReviewNotFound)) /\ UNCHANGED reviews
           ELSE LET review  == TheReview(id)
                    rating  == IF OrElse(body.rating, Undef) # Undef
                               THEN parseInt(body.rating) ELSE Num(review.rating)
                    updated == [review EXCEPT !.rating = rating.v,
                                              !.isPublic = IF body.isPublic = "undefined"
                                                           THEN review.isPublic
                                                           ELSE body.isPublic = "true"]
                IN  IF review.reviewer # u
                    THEN Reply(rq, Response(403, "You can only update your own reviews"))
                         /\ UNCHANGED reviews
                    ELSE IF tooOld
                    THEN Reply(rq, Response(400, "Reviews can only be updated within 30 days of creation"))
                         /\ UNCHANGED reviews
                    ELSE IF body.categories
                    THEN Reply(rq, Response(500, "Cannot set properties of undefined"))
                         /\ UNCHANGED reviews
                    ELSE IF ~ScoreValid(rating)
                    THEN Reply(rq, Response(500, MsgValidation))
                         /\ UNCHANGED reviews
                    ELSE /\ reviews' = Save(updated)
                         /\ IF notifyOk
                            THEN Reply(rq, [Response(200, "Review updated successfully") EXCEPT
                                                  !.review = id,
                                                  !.sent = {[recipient |-> review.recipient,
                                                             type |-> "new_review", review |-> id]}])
                            ELSE Reply(rq, Response(500, MsgNotifyFailed))

deleteReview(u, id) ==
    LET rq == Request("deleteReview", u, [id |-> id])
    IN  /\ UNCHANGED <<isActive, issues, userRole, nextId, pc, req, roleChanges>>
        /\ IF ReviewfindById(reviews, id) = {}
           THEN Reply(rq, Response(404, MsgReviewNotFound)) /\ UNCHANGED reviews
           ELSE IF TheReview(id).reviewer # u /\ rq.role # "admin"
           THEN Reply(rq, Response(403, "You can only delete your own reviews")) /\ UNCHANGED reviews
           ELSE /\ reviews' = reviews \ ReviewfindById(reviews, id)
                /\ Reply(rq, Response(200, "Review deleted successfully"))

Admins == {a \in Users : userRole[a] = "admin"}

\* a report that leaves the metadata of an earlier report in place
reportedReview_KeepFirst(review, u, reason, now) ==
    IF review.isReported THEN review
    ELSE [review EXCEPT !.isReported = TRUE, !.reportReason = reason,
                        !.reportedBy = u, !.reportedAt = now]

\* a report that records the reporter as the reviewer
reportedReview_IntoReviewer(review, u, reason, now) ==
    [review EXCEPT !.isReported = TRUE, !.reportReason = reason,
                   !.reviewer = u, !.reportedAt = now]

\* the review after reportReview's four assignments
reportedReview(review, u, reason, now) ==
    [review EXCEPT !.isReported = TRUE, !.reportReason = reason,
                   !.reportedBy = u, !.reportedAt = now]

\* a reportReview that lets the author of a review report it as well
reportReviewAllowed_Author(review, u) == u \in {review.recipient, review.reviewer}

\* review.recipient.toString() === req.user._id.toString()
reportReviewAllowed(review, u) == review.recipient = u

MsgReasonRequired == "Report reason is required"

MsgNotRecipient == "You can only report reviews about yourself"

MsgReported == "Review reported successfully. Our team will review it shortly."

\* reportReview; reason Null is a missing (falsy) reason, now is new Date();
\* informed are the admins whose Notification.create succeeded before the
\* loop ended or threw
reportReview(u, id, reason, now, informed) ==
    LET rq == Request("reportReview", u, [id |-> id, reason |-> reason])
    IN  /\ UNCHANGED <<isActive, issues, userRole, nextId, pc, req, roleChanges>>
        /\ IF reason = Null
           THEN Reply(rq, Response(400, MsgReasonRequired)) /\ UNCHANGED reviews
           ELSE IF ReviewfindById(reviews, id) = {}
           THEN Reply(rq, Response(404, MsgReviewNotFound)) /\ UNCHANGED reviews
           ELSE IF ~reportReviewAllowed(TheReview(id), u)
           THEN Reply(rq, Response(403, MsgNotRecipient)) /\ UNCHANGED reviews
           ELSE /\ reviews' = Save(reportedReview(TheReview(id), u, reason, now))
                /\ informed \subseteq Admins
                /\ Reply(rq, [Response(IF informed = Admins THEN 200 ELSE 500,
                                           IF informed = Admins THEN MsgReported ELSE MsgNotifyFailed)
                                  EXCEPT !.sent = {[recipient |-> a, type |-> "system_notification",
                                                    review |-> id] : a \in informed}])

\* the values new Date() can have: no earlier than a date already stored
Times == {t \in 1..MaxTime : \A r \in reviews : r.reportedAt <= t}

Range(seq) == {seq[i] : i \in 1..Len(seq)}

\* helpfulVotes.filter(item => item.user !== user)
Without(seq, user) == SelectSeq(seq, LAMBDA v : v # user)

\* helpfulVotes.some(item => item.user === user)
alreadyMarked(review, u) == u \in Range(review.helpfulVotes)

MsgMarked == "Marked review as helpful"

MsgUnmarked == "Removed helpful mark from review"

MsgVersionError == "No matching document found for id and version"

\* helpfulVotes of the document in the handler's hands when it saves
helpfulVotesAfter(review, u) ==
    IF alreadyMarked(review, u)
    THEN Without(review.helpfulVotes, u)
    ELSE Append(review.helpfulVotes, u)

\* the response of markReviewAsHelpful after a save that went through; votes
\* is helpfulVotes of the document in the handler's hands
HelpfulResponse(review, u, votes) ==
    [Response(200, IF alreadyMarked(review, u) THEN MsgUnmarked ELSE MsgMarked)
        EXCEPT !.review = review.id] @@ [helpfulCount |-> Len(votes)]

\* review.save() after helpfulVotes.push(...): mongoose sends $push of the new
\* element and $inc of __v, matching the document by _id alone
SavePush(rvs, review, u) ==
    {IF r.id = review.id
     THEN [r EXCEPT !.helpfulVotes = Append(@, u), !.version = @ + 1]
     ELSE r : r \in rvs}

\* review.save() after helpfulVotes = helpfulVotes.filter(...): mongoose sends
\* $set of the whole array and $inc of __v, matching the document by _id and
\* by the __v it read; with no match the save throws a VersionError
SaveSetMatches(rvs, review) ==
    \E r \in rvs : r.id = review.id /\ r.version = review.version

SaveSet(rvs, review, votes) ==
    {IF r.id = review.id
     THEN [r EXCEPT !.helpfulVotes = votes, !.version = @ + 1]
     ELSE r : r \in rvs}

\* markReviewAsHelpful from the document findById returned to the response
markReviewAsHelpfulSave(rq, review) ==
    LET u == rq.user
    IN  IF alreadyMarked(review, u)
        THEN IF SaveSetMatches(reviews, review)
             THEN /\ reviews' = SaveSet(reviews, review, helpfulVotesAfter(review, u))
                  /\ Reply(rq, HelpfulResponse(review, u, helpfulVotesAfter(review, u)))
             ELSE /\ Reply(rq, Response(500, MsgVersionError))
                  /\ UNCHANGED reviews
        ELSE IF ReviewfindById(reviews, review.id) # {}
             THEN /\ reviews' = SavePush(reviews, review, u)
                  /\ Reply(rq, HelpfulResponse(review, u, helpfulVotesAfter(review, u)))
             ELSE /\ Reply(rq, Response(500, MsgVersionError))
                  /\ UNCHANGED reviews

Saving == {p \in Procs : pc[p] = "save"}

\* a request enters markReviewAsHelpful and runs to the await of review.save()
markReviewAsHelpfulBegin(p, u, id) ==
    LET rq == Request("markReviewAsHelpful", u, [id |-> id])
    IN  /\ pc[p] = "idle"
        /\ UNCHANGED <<isActive, issues, userRole, reviews, nextId, roleChanges>>
        /\ IF ReviewfindById(reviews, id) = {}
           THEN Reply(rq, Response(404, MsgReviewNotFound)) /\ UNCHANGED <<pc, req>>
           ELSE /\ TheReview(id).version + Cardinality(Saving) < MaxToggles
                /\ pc' = [pc EXCEPT ![p] = "save"]
                /\ req' = [req EXCEPT ![p] = rq @@ [review |-> TheReview(id)]]
                /\ UNCHANGED last

\* the request resumes in review.save() and responds
markReviewAsHelpfulEnd(p) ==
    /\ pc[p] = "save"
    /\ markReviewAsHelpfulSave([op |-> req[p].op, user |-> req[p].user, role |-> req[p].role,
                                body |-> req[p].body],
                               req[p].review)
    /\ Release(p)
    /\ UNCHANGED <<isActive, issues, userRole, nextId, roleChanges>>

\* the whole handler, no other request in between
markReviewAsHelpful(u, id) ==
    LET rq == Request("markReviewAsHelpful", u, [id |-> id])
    IN  /\ UNCHANGED <<isActive, issues, userRole, nextId, pc, req, roleChanges>>
        /\ IF ReviewfindById(reviews, id) = {}
           THEN Reply(rq, Response(404, MsgReviewNotFound)) /\ UNCHANGED reviews
           ELSE /\ TheReview(id).version + Cardinality(Saving) < MaxToggles
                /\ markReviewAsHelpfulSave(rq, TheReview(id))

----------------------------------------------------------------------------
(* Statistics of a recipient.  An average is held as its sum and count and  *)
(* returned in tenths (44 is 4.4), as the handlers return it rounded to one *)
(* decimal.                                                                 *)

\* { $match: { recipient: userId } }
Match(rvs, userId) == {r \in rvs : r.recipient = userId}

\* { $sum: '$field' } over the documents of a group
RECURSIVE Sum(_, _)
Sum(docs, field) ==
    IF docs = {} THEN 0
    ELSE LET r == CHOOSE x \in docs : TRUE
         IN  r[field] + Sum(docs \ {r}, field)

\* { $sum: { $cond: [{ $eq: ['$rating', value] }, 1, 0] } }
RECURSIVE SumCond(_, _)
SumCond(docs, value) ==
    IF docs = {} THEN 0
    ELSE LET r == CHOOSE x \in docs : TRUE
         IN  (IF r.rating = value THEN 1 ELSE 0) + SumCond(docs \ {r}, value)

\* { $sum: 1 }
RECURSIVE SumOne(_)
SumOne(docs) ==
    IF docs = {} THEN 0
    ELSE 1 + SumOne(docs \ {CHOOSE x \in docs : TRUE})

\* the tenths of an average cut off instead of rounded
MathRound_Floor(sum, count) == (10 * sum) \div count

\* Math.round(avg * 10) of the average sum / count: the nearest whole number
\* of tenths, a half going up
MathRound(sum, count) == (20 * sum + count) \div (2 * count)

ZeroStats ==
    [averageRating |-> 0, totalReviews |-> 0,
     categoryAverages |-> [k \in Categories |-> 0],
     ratingDistribution |-> [fiveStar |-> 0, fourStar |-> 0, threeStar |-> 0,
                             twoStar |-> 0, oneStar |-> 0]]

\* Review.getReviewStats(userId)
getReviewStats(rvs, userId) ==
    LET group == Match(rvs, userId)
        total == SumOne(group)
    IN  IF group = {} THEN ZeroStats
        ELSE [averageRating |-> MathRound(Sum(group, "rating"), total),
              totalReviews |-> total,
              categoryAverages |-> [k \in Categories |-> MathRound(Sum(group, k), total)],
              ratingDistribution |-> [fiveStar  |-> SumCond(group, 5),
                                      fourStar  |-> SumCond(group, 4),
                                      threeStar |-> SumCond(group, 3),
                                      twoStar   |-> SumCond(group, 2),
                                      oneStar   |-> SumCond(group, 1)]]

\* a query that shows every review to every requester
publicOnly_Never(viewer, userId) == FALSE

\* the query is narrowed to isPublic: true when no user is authenticated or
\* the authenticated user is not the one whose reviews are asked for
publicOnly(viewer, userId) == viewer = Null \/ viewer # userId

\* getUserReviews of the first page; viewer is Null for a request without an
\* authenticated user.  The response lists the _ids of the reviews found.
getUserReviews(viewer, userId) ==
    LET rq    == [op |-> "getUserReviews", user |-> viewer,
                  role |-> IF viewer \in Users THEN userRole[viewer] ELSE Null,
                  body |-> [userId |-> userId]]
        query == IF publicOnly(viewer, userId)
                 THEN {r \in Match(reviews, userId) : r.isPublic}
                 ELSE Match(reviews, userId)
    IN  /\ UNCHANGED <<isActive, issues, userRole, reviews, nextId, pc, req, roleChanges>>
        /\ IF ~UserfindById(userId)
           THEN Reply(rq, Response(404, "User not found"))
           ELSE Reply(rq, Response(200, "Reviews retrieved successfully") @@
                          [reviews      |-> {r.id : r \in query},
                           stats        |-> getReviewStats(reviews, userId),
                           totalReviews |-> Cardinality(query)])

\* getReportedReviews of the first page: the _ids of the reviews found
getReportedReviews(u) ==
    LET rq    == Request("getReportedReviews", u, [page |-> 1])
        query == {r \in reviews : r.isReported}
    IN  /\ UNCHANGED <<isActive, issues, userRole, reviews, nextId, pc, req, roleChanges>>
        /\ IF rq.role # "admin"
           THEN Reply(rq, Response(403, "Not authorized to access reported reviews"))
           ELSE Reply(rq, Response(200, "Reported reviews retrieved successfully") @@
                          [reportedReviews |-> {r.id : r \in query},
                           totalReported   |-> Cardinality(query)])

----------------------------------------------------------------------------
(* Admin handlers.  routes/adminRoutes.js lets only role admin through. *)

\* review.reported, review.from, review.to: reviewSchema has no such paths, so
\* a document read through the model has none of them
reported(r) == Null

from(r) == Null

to(r) == Null

SystemNotification(recipient, id) ==
    [recipient |-> recipient, type |-> "system-notification", review |-> id]

MsgInvalidAction == "Invalid action. Must be approve, reject, or delete."

MsgNotReported == "This review has not been reported"

\* a handler that takes any action for the third variant
actionValid_Any(action) == TRUE

\* ['approve', 'reject', 'delete'].includes(action); a missing action is Null
actionValid(action) == action \in {"approve", "reject", "delete"}

handleReportedReview(u, id, action) ==
    LET rq == Request("handleReportedReview", u, [id |-> id, action |-> action])
    IN  /\ rq.role = "admin"
        /\ UNCHANGED <<isActive, issues, userRole, nextId, pc, req, roleChanges>>
        /\ IF ~actionValid(action)
           THEN Reply(rq, Response(400, MsgInvalidAction))
                /\ UNCHANGED reviews
           ELSE IF ReviewfindById(reviews, id) = {}
           THEN Reply(rq, Response(404, MsgReviewNotFound)) /\ UNCHANGED reviews
           ELSE LET review == TheReview(id)
                IN  IF reported(review) = Null \/ ~reported(review).isReported
                    THEN Reply(rq, Response(400, MsgNotReported))
                         /\ UNCHANGED reviews
                    ELSE IF action = "delete"
                    THEN /\ reviews' = reviews \ {review}
                         /\ Reply(rq, [Response(200, "Reported review has been deleted") EXCEPT
                                              !.sent = {SystemNotification(from(review), id),
                                                        SystemNotification(to(review), id)}])
                    ELSE /\ reviews' = Save([review EXCEPT !.isPublic = IF action = "approve" THEN @ ELSE FALSE])
                         /\ Reply(rq, [Response(200, IF action = "approve"
                                                        THEN "Review report has been approved (rejected)"
                                                        ELSE "Review has been hidden and report resolved")
                                           EXCEPT !.sent = {SystemNotification(from(review), id),
                                                            SystemNotification(reported(review).reportedBy, id)}])

changeUserRole(u, userId, role) ==
    LET rq == Request("changeUserRole", u, [userId |-> userId, role |-> role])
    IN  /\ rq.role = "admin"
        /\ roleChanges < MaxRoleChanges
        /\ UNCHANGED <<isActive, issues, reviews, nextId, pc, req>>
        /\ IF role \notin {"client", "freelancer", "admin"}
           THEN Reply(rq, Response(400, "Invalid role. Must be client, freelancer, or admin."))
                /\ UNCHANGED <<isActive, issues, userRole, roleChanges>>
           ELSE IF ~UserfindById(userId)
           THEN Reply(rq, Response(404, "User not found"))
                /\ UNCHANGED <<isActive, issues, userRole, roleChanges>>
           ELSE IF userId = u
           THEN Reply(rq, Response(400, "You cannot change your own role"))
                /\ UNCHANGED <<isActive, issues, userRole, roleChanges>>
           ELSE /\ userRole' = [userRole EXCEPT ![userId] = role]
                /\ roleChanges' = roleChanges + 1
                /\ Reply(rq, [Response(200, "User role changed successfully") EXCEPT
                                     !.sent = {[recipient |-> userId, type |-> "role_changed", review |-> 0]}])

----------------------------------------------------------------------------
(* Accounts.  adminController's handlers on the isActive flag of a user. *)

AccountNotification(recipient, type) ==
    [recipient |-> recipient, type |-> type, review |-> 0]

\* updateUserStatus: the body's isActive is written to any account but the
\* caller's own
updateUserStatus(u, userId, active, notifyOk) ==
    LET rq == Request("updateUserStatus", u, [userId |-> userId, isActive |-> active])
    IN  /\ rq.role = "admin"
        /\ UNCHANGED <<issues, userRole, reviews, nextId, pc, req, roleChanges>>
        /\ IF ~UserfindById(userId)
           THEN Reply(rq, Response(404, "User not found")) /\ UNCHANGED isActive
           ELSE IF userId = u
           THEN Reply(rq, Response(400, "You cannot change the status of your own account"))
                /\ UNCHANGED isActive
           ELSE /\ isActive' = [isActive EXCEPT ![userId] = active]
                /\ IF notifyOk
                   THEN Reply(rq, [Response(200, IF active THEN "User activated successfully"
                                                           ELSE "User deactivated successfully")
                                     EXCEPT !.sent = {AccountNotification(userId, "system-notification")}])
                   ELSE Reply(rq, Response(500, MsgNotifyFailed))

\* deactivateUser: refused on the caller's own account and, for a caller
\* whose role is not super_admin, on an account of role admin
deactivateUser(u, userId, notifyOk) ==
    LET rq == Request("deactivateUser", u, [userId |-> userId])
    IN  /\ rq.role = "admin"
        /\ UNCHANGED <<issues, userRole, reviews, nextId, pc, req, roleChanges>>
        /\ IF ~UserfindById(userId)
           THEN Reply(rq, Response(404, "User not found")) /\ UNCHANGED isActive
           ELSE IF userId = u
           THEN Reply(rq, Response(400, "You cannot deactivate your own account"))
                /\ UNCHANGED isActive
           ELSE IF userRole[userId] = "admin" /\ rq.role # "super_admin"
           THEN Reply(rq, Response(403, "You cannot deactivate another admin account"))
                /\ UNCHANGED isActive
           ELSE /\ isActive' = [isActive EXCEPT ![userId] = FALSE]
                /\ IF notifyOk
                   THEN Reply(rq, [Response(200, "User account deactivated successfully")
                                     EXCEPT !.sent = {AccountNotification(userId, "account_deactivated")}])
                   ELSE Reply(rq, Response(500, MsgNotifyFailed))

----------------------------------------------------------------------------
(* Issues.  The issue handlers of controllers/reviewController.js; an issue *)
(* is kept without its title, description, category, priority and dates.   *)

\* the handlers of an issue touch no other issue: one issue is followed
IssueIds == {1}

IssueStatuses == {"open", "in_progress", "resolved", "closed"}

IssuefindById(id) == {i \in issues : i.id = id}

TheIssue(id) == CHOOSE i \in issues : i.id = id

SaveIssue(issue) == (issues \ IssuefindById(issue.id)) \cup {issue}

\* message.trim(): a message is "hello", or " " (white space only), or Null
\* when the body has none
trim(message) == IF message = " " THEN "" ELSE message

\* User.find({ role: 'admin', isActive: true })
ActiveAdmins == {v \in Users : userRole[v] = "admin" /\ isActive[v]}

IssueNotifications(recipients) ==
    {[recipient |-> v, type |-> "system-notification", review |-> 0] : v \in recipients}

\* the response once the issue is saved: the notifications are created, and
\* one that fails turns the answer into a 500
IssueResponse(ok, targets, notifyOk) ==
    IF targets = {} \/ notifyOk
    THEN [ok EXCEPT !.sent = IssueNotifications(targets)]
    ELSE Response(500, MsgNotifyFailed)

\* createIssue; complete says whether the body has title, description and
\* category
createIssue(u, complete, notifyOk) ==
    LET rq    == Request("createIssue", u, [complete |-> complete])
        issue == [id |-> Cardinality(issues) + 1, submittedBy |-> u, assignedTo |-> Null,
                  status |-> "open", responses |-> <<>>, internalNotes |-> <<>>,
                  viewedByUser |-> FALSE]
    IN  /\ Cardinality(issues) + 1 \in IssueIds
        /\ UNCHANGED <<isActive, userRole, reviews, nextId, pc, req, roleChanges>>
        /\ IF ~complete
           THEN Reply(rq, Response(400, "Title, description, and category are required"))
                /\ UNCHANGED issues
           ELSE /\ issues' = issues \cup {issue}
                /\ Reply(rq, IssueResponse(Response(201, "Issue created successfully"),
                                           ActiveAdmins, notifyOk))

\* an issue anyone may respond to
canRespond_Anyone(issue, rq) == TRUE

\* isOwner || isAdmin || isAssigned
canRespond(issue, rq) ==
    \/ issue.submittedBy = rq.user
    \/ rq.role = "admin"
    \/ issue.assignedTo # Null /\ issue.assignedTo = rq.user

\* the issue after addResponse's push and assignments
respondedIssue(issue, rq) ==
    LET isOwner == issue.submittedBy = rq.user
    IN  [issue EXCEPT !.responses = Append(@, [message |-> trim(rq.body.message),
                                               author |-> rq.user]),
                      !.viewedByUser = isOwner,
                      !.status = IF isOwner /\ @ = "closed" THEN "open" ELSE @]

addResponse(u, id, message, notifyOk) ==
    LET rq == Request("addResponse", u, [id |-> id, message |-> message])
    IN  /\ UNCHANGED <<isActive, userRole, reviews, nextId, pc, req, roleChanges>>
        /\ IF message = Null \/ trim(message) = ""
           THEN Reply(rq, Response(400, "Response message is required")) /\ UNCHANGED issues
           ELSE IF IssuefindById(id) = {}
           THEN Reply(rq, Response(404, "Issue not found")) /\ UNCHANGED issues
           ELSE LET issue   == TheIssue(id)
                    isOwner == issue.submittedBy = u
                    isAdmin == rq.role = "admin"
                    isAssigned == issue.assignedTo # Null /\ issue.assignedTo = u
                    targets == IF isAdmin \/ isAssigned THEN {issue.submittedBy}
                               ELSE IF issue.assignedTo # Null THEN {issue.assignedTo}
                               ELSE ActiveAdmins
                IN  IF ~canRespond(issue, rq)
                    THEN Reply(rq, Response(403, "Not authorized to respond to this issue"))
                         /\ UNCHANGED issues
                    ELSE /\ Len(issue.responses) < MaxResponses
                         /\ issues' = SaveIssue(respondedIssue(issue, rq))
                         /\ Reply(rq, IssueResponse(Response(200, "Response added successfully"),
                                                    targets, notifyOk))

\* updateIssueStatus: any status of the body is assigned, and the save
\* validates it against the enum of issueSchema
updateIssueStatus(u, id, status, internalNote, notifyOk) ==
    LET rq == Request("updateIssueStatus", u,
                      [id |-> id, status |-> status, internalNote |-> internalNote])
    IN  /\ rq.role = "admin"
        /\ UNCHANGED <<isActive, userRole, reviews, nextId, pc, req, roleChanges>>
        /\ IF status = Null
           THEN Reply(rq, Response(400, "Status is required")) /\ UNCHANGED issues
           ELSE IF IssuefindById(id) = {}
           THEN Reply(rq, Response(404, "Issue not found")) /\ UNCHANGED issues
           ELSE LET issue == TheIssue(id)
                    notes == IF internalNote = Null THEN issue.internalNotes
                             ELSE Append(issue.internalNotes, [note |-> internalNote, author |-> u])
                IN  IF status \notin IssueStatuses
                    THEN Reply(rq, Response(500, MsgValidation)) /\ UNCHANGED issues
                    ELSE /\ Len(notes) <= MaxNotes
                         /\ issues' = SaveIssue([issue EXCEPT !.status = status,
                                                              !.internalNotes = notes])
                         /\ Reply(rq, IssueResponse(Response(200, "Issue status updated successfully"),
                                                    {issue.submittedBy}, notifyOk))

\* assignIssue: the assignee, when the body names one, is a user of role admin
assignIssue(u, id, assignedTo, notifyOk) ==
    LET rq == Request("assignIssue", u, [id |-> id, assignedTo |-> assignedTo])
    IN  /\ rq.role = "admin"
        /\ UNCHANGED <<isActive, userRole, reviews, nextId, pc, req, roleChanges>>
        /\ IF IssuefindById(id) = {}
           THEN Reply(rq, Response(404, "Issue not found")) /\ UNCHANGED issues
           ELSE IF assignedTo # Null /\ (~UserfindById(assignedTo) \/ userRole[assignedTo] # "admin")
           THEN Reply(rq, Response(400, "Assignee must be an admin user")) /\ UNCHANGED issues
           ELSE /\ issues' = SaveIssue([TheIssue(id) EXCEPT !.assignedTo = assignedTo])
                /\ IF assignedTo = Null
                   THEN Reply(rq, Response(200, "Issue unassigned successfully"))
                   ELSE Reply(rq, IssueResponse(Response(200, "Issue assigned successfully"),
                                                {assignedTo}, notifyOk))

----------------------------------------------------------------------------
(* Requests the environment sends *)

NoScores ==
    [communication |-> Undef, qualityOfWork |-> Undef, valueForMoney |-> Undef,
     expertise |-> Undef, professionalism |-> Undef]

ReviewBody(jobId, recipient, rating, comment, scores, isPublic, type) ==
    [jobId |-> jobId, recipient |-> recipient, rating |-> rating, comment |-> comment,
     isPublic |-> isPublic, type |-> type] @@ scores

\* a valid five-star review, public by default
PlainBodies ==
    {ReviewBody(j, r, Num(50), CommentMinLength, NoScores, "undefined", "undefined") :
        j \in {"J1", "J2"}, r \in {"f"}}

UpdateBodies ==
    {[rating |-> Undef, categories |-> FALSE, isPublic |-> "true"]}

Init ==
    /\ userRole = InitRole
    /\ reviews = {}
    /\ nextId = 1
    /\ pc = [p \in Procs |-> "idle"]
    /\ req = [p \in Procs |-> NoRequest]
    /\ last = [req |-> NoRequest, res |-> NoResponse]
    /\ roleChanges = 0
    /\ isActive = [u \in Users |-> TRUE]
    /\ issues = {}

\* every handler of a review, interleaved; createReview yields between its
\* advisory findOne and Review.create
Next ==
    \/ \E p \in Procs, u \in {"c", "x"}, body \in PlainBodies : createReviewBegin(p, u, body)
    \/ \E p \in Procs : createReviewEnd(p)
    \/ \E u \in {"c", "f"}, id \in ReviewIds, body \in UpdateBodies, tooOld \in BOOLEAN :
          updateReview(u, id, body, tooOld, TRUE)
    \/ \E u \in {"c", "a"}, id \in ReviewIds : deleteReview(u, id)
    \/ \E u \in {"c", "f"}, id \in ReviewIds, now \in Times : reportReview(u, id, "spam", now, Admins)
    \/ \E u \in {"x"}, id \in ReviewIds : markReviewAsHelpful(u, id)
    \/ \E u \in {"a"}, id \in ReviewIds, action \in {"reject", "hide"} : handleReportedReview(u, id, action)

Spec == Init /\ [][Next]_vars

\* a payload the schema rejects: a six-star rating
SixStars == Num(60)

\* submissions that differ in what the checks of createReview read: the job,
\* the recipient, the caller, and whether the payload is valid
SubmitBodies ==
    {ReviewBody(j, r, rating, CommentMinLength, NoScores, "undefined", "undefined") :
        j \in JobIds \cup {Ghost}, r \in {"f", Ghost}, rating \in {Num(50), SixStars}}

\* one request after the other: submissions by every user, deletions, and an
\* admin changing roles
NextSubmit ==
    \/ \E u \in {"c", "f", "a"}, body \in SubmitBodies : createReview(u, body)
    \/ \E u \in {"c", "a"}, id \in ReviewIds : deleteReview(u, id)
    \/ \E role \in Roles : changeUserRole("a", "c", role)

SpecSubmit == Init /\ [][NextSubmit]_vars

\* category scores of a payload: none, one, all five, a zero and a fraction,
\* one out of range
ScoreSets ==
    {NoScores,
     [NoScores EXCEPT !.communication = Num(20)],
     [communication |-> Num(10), qualityOfWork |-> Num(20), valueForMoney |-> Num(30),
      expertise |-> Num(40), professionalism |-> Num(50)],
     [NoScores EXCEPT !.communication = Num(0), !.qualityOfWork = Num(45)],
     [NoScores EXCEPT !.professionalism = SixStars]}

ScoreBodies ==
    {ReviewBody("J1", "f", rating, comment, scores, "undefined", "undefined") :
        rating \in {Undef, Num(40), Num(50), SixStars},
        comment \in {CommentMinLength - 1, CommentMinLength},
        scores \in ScoreSets}

\* payloads that differ only in the fields createReview must not trust
FlagBodies ==
    {ReviewBody("J1", "f", Num(50), CommentMinLength, NoScores, isPublic, type) :
        isPublic \in {"undefined", "true", "false"},
        type \in {"undefined", "client-to-freelancer", "freelancer-to-client"}}

\* bodies of updateReview: no rating, a zero, a fraction, one out of range;
\* with and without a category score
RatingUpdates ==
    {[rating |-> rating, categories |-> categories, isPublic |-> "undefined"] :
        rating \in {Undef, Num(0), Num(35), SixStars}, categories \in BOOLEAN}

\* one request after the other: the client of J1 submits every payload, both
\* parties submit the flag payloads, the client changes the rating of a
\* review, reviews are deleted to submit again
NextPayload ==
    \/ \E body \in ScoreBodies : createReview("c", body)
    \/ \E u \in {"c", "f"}, body \in FlagBodies : createReview(u, body)
    \/ \E id \in ReviewIds, body \in RatingUpdates, notifyOk \in BOOLEAN :
          updateReview("c", id, body, FALSE, notifyOk)
    \/ \E u \in {"c", "f"}, id \in ReviewIds : deleteReview(u, id)

SpecPayload == Init /\ [][NextPayload]_vars

----------------------------------------------------------------------------
(* Statistics over a ledger that already holds reviews *)

MaxStatsReviews == 6

StatsIds == 1..MaxStatsReviews

\* the jobs c and f completed together, one per review
StatsJobs == <<"J1", "J5", "J6", "J7", "J8", "J9", "J10", "J11">>

\* The review with _id i that a ledger may hold, by choice k.  Choices 1 to
\* 5 are public reviews of recipient f by c with rating k and the default
\* category scores.  Choice 6 is a private five-star review of f by c with
\* communication 1, reported by f.  Choice 7 is a review of recipient c by f.
StatsReview(i, k) ==
    LET other  == k = 7
        hidden == k = 6
        rating == IF other THEN 2 ELSE IF hidden THEN 5 ELSE k
        u      == IF other THEN "f" ELSE "c"
        body   == ReviewBody(StatsJobs[i], IF other THEN "c" ELSE "f", Num(10 * rating),
                             CommentMinLength,
                             IF hidden THEN [NoScores EXCEPT !.communication = Num(10)]
                                       ELSE NoScores,
                             IF hidden THEN "false" ELSE "undefined", "undefined")
        rq     == [op |-> "createReview", user |-> u, role |-> InitRole[u], body |-> body]
        doc    == StoredReview(createReviewDoc(rq), i)
    IN  IF hidden
        THEN reportedReview(doc, "f", "spam", 1)
        ELSE doc

\* the non-decreasing sequences of n choices from lo on: the _ids, which no
\* statistic reads, number the reviews in the order of their choices
RECURSIVE SortedChoices(_, _)
SortedChoices(n, lo) ==
    IF n = 0 THEN {<<>>}
    ELSE UNION {{<<k>> \o t : t \in SortedChoices(n - 1, k)} : k \in lo..7}

InitStats ==
    /\ userRole = InitRole
    /\ \E n \in 0..MaxStatsReviews : \E ch \in SortedChoices(n, 1) :
          /\ reviews = {StatsReview(i, ch[i]) : i \in 1..n}
          /\ nextId = n + 1
    /\ pc = [p \in Procs |-> "idle"]
    /\ req = [p \in Procs |-> NoRequest]
    /\ last = [req |-> NoRequest, res |-> NoResponse]
    /\ roleChanges = 0
    /\ isActive = [u \in Users |-> TRUE]
    /\ issues = {}

\* the reviews of a user are read, by anyone and by the user; an admin
\* deletes reviews
NextStats ==
    \/ \E viewer \in {Null, "f"}, userId \in {"f", "c", Ghost} : getUserReviews(viewer, userId)
    \/ \E id \in StatsIds : deleteReview("a", id)

SpecStats == InitStats /\ [][NextStats]_vars

----------------------------------------------------------------------------
(* Helpful votes *)

\* c reviews f; c and x mark reviews as helpful, their requests overlapping
\* between findById and save
NextHelpful ==
    \/ \E body \in PlainBodies : createReview("c", body)
    \/ \E p \in Procs, u \in {"c", "x"}, id \in ReviewIds : markReviewAsHelpfulBegin(p, u, id)
    \/ \E p \in Procs : markReviewAsHelpfulEnd(p)

SpecHelpful == Init /\ [][NextHelpful]_vars

\* the same, no user having two requests in flight at once
NextHelpfulOthers ==
    \/ \E body \in PlainBodies : createReview("c", body)
    \/ \E p \in Procs, u \in {"c", "x"}, id \in ReviewIds :
          /\ \A q \in Procs : req[q].user # u
          /\ markReviewAsHelpfulBegin(p, u, id)
    \/ \E p \in Procs : markReviewAsHelpfulEnd(p)

SpecHelpfulOthers == Init /\ [][NextHelpfulOthers]_vars

----------------------------------------------------------------------------
(* Reports and their moderation *)

\* c reviews f; the author, the recipient and a third user report reviews,
\* with and without a reason, while notifying the admins succeeds or fails;
\* x marks reviews as helpful; an admin moderates and lists the reported
\* reviews; the author, the recipient and an admin delete reviews
NextReport ==
    \/ \E body \in PlainBodies : createReview("c", body)
    \/ \E u \in {"c", "f", "x"}, id \in ReviewIds, reason \in {Null, "spam", "other"},
          now \in Times, informed \in SUBSET Admins :
          reportReview(u, id, reason, now, informed)
    \/ \E id \in ReviewIds : markReviewAsHelpful("x", id)
    \/ \E id \in ReviewIds, action \in {"approve", "reject", "delete", "hide", Null} :
          handleReportedReview("a", id, action)
    \/ \E u \in {"a", "f"} : getReportedReviews(u)
    \/ \E u \in {"c", "f", "a"}, id \in ReviewIds : deleteReview(u, id)

SpecReport == Init /\ [][NextReport]_vars

\* bodies of updateReview: a rating or none, a category score or none,
\* isPublic or none
AuthorUpdates ==
    {[rating |-> rating, categories |-> categories, isPublic |-> isPublic] :
        rating \in {Undef, Num(30)}, categories \in BOOLEAN,
        isPublic \in {"undefined", "true", "false"}}

\* c reviews f; c and f update reviews; f reports them, a third user marks
\* them as helpful and an admin moderates them
NextAuthor ==
    \/ \E body \in PlainBodies : createReview("c", body)
    \/ \E u \in {"c", "f"}, id \in ReviewIds, body \in AuthorUpdates, tooOld \in BOOLEAN :
          updateReview(u, id, body, tooOld, TRUE)
    \/ \E id \in ReviewIds, now \in Times : reportReview("f", id, "spam", now, Admins)
    \/ \E id \in ReviewIds : markReviewAsHelpful("x", id)
    \/ \E id \in ReviewIds, action \in {"approve", "reject", "delete"} :
          handleReportedReview("a", id, action)

SpecAuthor == Init /\ [][NextAuthor]_vars

\* the admin makes x an admin or a client again; the admins set and clear
\* isActive of every account
NextAdmin ==
    \/ \E role \in {"admin", "client", "owner"} : changeUserRole("a", "x", role)
    \/ \E u \in {"a", "x"}, userId \in Users \cup {Ghost}, active \in BOOLEAN, notifyOk \in BOOLEAN :
          updateUserStatus(u, userId, active, notifyOk)
    \/ \E u \in {"a", "x"}, userId \in Users \cup {Ghost}, notifyOk \in BOOLEAN :
          deactivateUser(u, userId, notifyOk)

SpecAdmin == Init /\ [][NextAdmin]_vars

\* c submits issues; everyone responds to them; the admin closes them or
\* takes them in progress, with or without a note, and assigns them; x is
\* made an admin or a freelancer
NextIssues ==
    \/ \E complete \in BOOLEAN, notifyOk \in BOOLEAN : createIssue("c", complete, notifyOk)
    \/ \E u \in Users, id \in IssueIds, message \in {Null, " ", "hello"}, notifyOk \in BOOLEAN :
          addResponse(u, id, message, notifyOk)
    \/ \E id \in IssueIds, status \in {Null, "closed", "in_progress", "paused"},
          internalNote \in {Null, "note"}, notifyOk \in BOOLEAN :
          updateIssueStatus("a", id, status, internalNote, notifyOk)
    \/ \E id \in IssueIds, assignedTo \in {Null, "a", "x", Ghost}, notifyOk \in BOOLEAN :
          assignIssue("a", id, assignedTo, notifyOk)
    \/ \E role \in {"admin", "freelancer"} : changeUserRole("a", "x", role)

SpecIssues == Init /\ [][NextIssues]_vars

----------------------------------------------------------------------------
(* Claims *)

\* the (job, reviewer, recipient) triple a createReview request names
RequestTriple(rq) == <<rq.body.jobId, rq.user, rq.body.recipient>>

ReviewsOf(rvs, triple) == {r \in rvs : Triple(r) = triple}

Conflict == Response(400, MsgAlreadyReviewed)

\* C1: in every reachable state, whatever createReview, updateReview,
\* deleteReview, reportReview, markReviewAsHelpful and handleReportedReview
\* calls ran and however they interleaved, no two stored Reviews have the same
\* (job, reviewer, recipient) triple.
C1_OneReviewPerTriple ==
    \A r1, r2 \in reviews : Triple(r1) = Triple(r2) => r1 = r2

\* two Reviews with different triples are stored and the last exchange is a
\* submission refused as a duplicate
C1_Witness ==
    /\ Cardinality(reviews) = 2
    /\ last.req.op = "createReview"
    /\ last.res = Conflict

\* C2: a createReview that passed the advisory findOne and resumes when a
\* Review with its triple has been inserted meanwhile stores nothing, leaves
\* the winner's document as it is, and answers exactly what a duplicate
\* submitted after the winner would be answered: 400 "already submitted".
C2_RaceLoserGetsConflict ==
    [][\A p \in Procs :
         (/\ pc[p] = "create"
          /\ pc'[p] = "idle"
          /\ reviewSchemaValid(createReviewDoc(req[p]))
          /\ ReviewsOf(reviews, RequestTriple(req[p])) # {})
         => /\ reviews' = reviews
            /\ Cardinality(ReviewsOf(reviews', RequestTriple(req[p]))) = 1
            /\ last'.req = req[p]
            /\ last'.res = createReviewChecks(req[p], reviews)
            /\ last'.res = Conflict]_vars

\* both requests passed findOne, the winner has inserted, the loser is about
\* to call Review.create
C2_Witness ==
    \E p, q \in Procs :
        /\ p # q
        /\ pc[p] = "create"
        /\ pc[q] = "idle"
        /\ last.req.op = "createReview"
        /\ last.res.status = 201
        /\ RequestTriple(last.req) = RequestTriple(req[p])
        /\ ReviewsOf(reviews, RequestTriple(req[p])) # {}

\* the last exchange is a createReview
Submitted == last.req.op = "createReview"

\* the last exchange is a createReview answered 201 with the created Review
Succeeded == Submitted /\ last.res.status = 201

\* the spec's error taxonomy, read off a createReview response
NotFound(r) == r.status = 404

InvalidState(r) == r.status = 400 /\ r.message \in {MsgNotCompleted, MsgNoParties}

Forbidden(r) == r.status = 403

\* the job of a request exists, is completed and has a client and a hired
\* freelancer
JobReviewable(jobId) ==
    /\ jobId \in DOMAIN Job
    /\ Job[jobId].status = "completed"
    /\ Job[jobId].client # Null
    /\ Job[jobId].hiredFreelancer # Null

\* C3 as amended: after a createReview answered 201 exactly one Review has
\* the request's triple; and a createReview naming the triple of a stored
\* Review leaves the Reviews as they are and fails: with the "already
\* submitted" Conflict when the caller's role is client or freelancer, with
\* Forbidden when the caller's role has meanwhile become another one.
C3_DuplicateRefused ==
    [][/\ Succeeded' => Cardinality(ReviewsOf(reviews', RequestTriple(last'.req))) = 1
       /\ (Submitted' /\ ReviewsOf(reviews, RequestTriple(last'.req)) # {})
          => /\ reviews' = reviews
             /\ last'.req.role \in {"client", "freelancer"} => last'.res = Conflict
             /\ last'.req.role \notin {"client", "freelancer"} => Forbidden(last'.res)]_vars

\* C3 as claimed: every createReview naming the triple of a stored Review
\* fails with Conflict and leaves the Reviews unchanged.
C3_Original ==
    [][(Submitted' /\ ReviewsOf(reviews, RequestTriple(last'.req)) # {})
       => (reviews' = reviews /\ last'.res = Conflict)]_vars

\* a Review is stored and the submission repeating its triple was refused
C3_Witness ==
    /\ Submitted
    /\ last.res = Conflict
    /\ Cardinality(ReviewsOf(reviews, RequestTriple(last.req))) = 1

\* C4 as amended: a createReview naming an existing recipient and an existing
\* job that is not completed, or lacks a client or a hired freelancer, is
\* answered InvalidState whatever the caller's role; and every stored Review
\* is of a completed job with both parties (none was stored for another job).
C4_JobMustBeReviewable ==
    /\ (/\ Submitted
        /\ last.req.body.jobId \in DOMAIN Job
        /\ last.req.body.recipient \in Users
        /\ ~JobReviewable(last.req.body.jobId))
       => InvalidState(last.res)
    /\ \A r \in reviews : JobReviewable(r.job)

\* C4 as claimed: a createReview for an existing job that is not completed,
\* or lacks a party, is answered InvalidState.
C4_Original ==
    (/\ Submitted
     /\ last.req.body.jobId \in DOMAIN Job
     /\ ~JobReviewable(last.req.body.jobId))
    => InvalidState(last.res)

\* an admin's submission for the job in progress, to an existing recipient,
\* was answered InvalidState
C4_Witness ==
    /\ Submitted
    /\ last.req.role = "admin"
    /\ last.req.body.jobId = "J2"
    /\ last.req.body.recipient \in Users
    /\ InvalidState(last.res)

\* C5: the reviewer of every stored Review is the client or the hired
\* freelancer of the Review's job.
C5_ReviewerIsParty ==
    \A r \in reviews : r.reviewer \in {Job[r.job].client, Job[r.job].hiredFreelancer}

\* C6: the recipient of every stored Review is the client or the hired
\* freelancer of the Review's job, and is not the reviewer.
C6_RecipientIsCounterparty ==
    \A r \in reviews :
        /\ r.recipient \in {Job[r.job].client, Job[r.job].hiredFreelancer}
        /\ r.recipient # r.reviewer

\* C7: the type of the Review a createReview stores is decided by the caller's
\* authenticated role alone, client giving client-to-freelancer and freelancer
\* giving freelancer-to-client, whatever type the request body carries.
C7_TypeFromRole ==
    Succeeded =>
        LET review == TheReview(last.res.review)
        IN  /\ last.req.role = "client" => review.type = "client-to-freelancer"
            /\ last.req.role = "freelancer" => review.type = "freelancer-to-client"

\* a client's submission carrying type freelancer-to-client was stored
C7_Witness ==
    /\ Succeeded
    /\ last.req.role = "client"
    /\ last.req.body.type = "freelancer-to-client"

\* C8: a createReview for a completed job with both parties and an existing
\* recipient, by a caller whose role is neither client nor freelancer, is
\* answered Forbidden, stores no Review and creates no Notification.
C8_OtherRoleForbidden ==
    [][(/\ Submitted'
        /\ JobReviewable(last'.req.body.jobId)
        /\ last'.req.body.recipient \in Users
        /\ last'.req.role \notin {"client", "freelancer"})
       => /\ Forbidden(last'.res)
          /\ last'.res.sent = {}
          /\ reviews' = reviews]_vars

\* an admin's submission for the completed job J1 was answered Forbidden
C8_Witness ==
    /\ Submitted
    /\ last.req.role = "admin"
    /\ last.req.body.jobId = "J1"
    /\ last.req.body.recipient = "f"
    /\ Forbidden(last.res)

\* the preconditions of submitReview in the spec's order, each with whether
\* the request violates it and the error it stands for
C9_Steps(rq, rvs) ==
    LET b == rq.body
        j == b.jobId
    IN  <<[violated |-> j \notin DOMAIN Job, error |-> Response(404, MsgJobNotFound)],
          [violated |-> b.recipient \notin Users, error |-> Response(404, MsgRecipientNotFound)],
          [violated |-> j \in DOMAIN Job /\ Job[j].status # "completed",
           error |-> Response(400, MsgNotCompleted)],
          [violated |-> j \in DOMAIN Job /\ (Job[j].client = Null \/ Job[j].hiredFreelancer = Null),
           error |-> Response(400, MsgNoParties)],
          [violated |-> rq.role \notin {"client", "freelancer"}, error |-> Response(403, MsgNotParty)],
          [violated |-> ReviewsOf(rvs, RequestTriple(rq)) # {}, error |-> Conflict],
          [violated |-> \/ b.rating.t # "number" \/ b.rating.v < 10 \/ b.rating.v > 50
                        \/ b.comment < 10,
           error |-> Response(500, MsgValidation)]>>

C9_Violated(rq, rvs) == {i \in 1..Len(C9_Steps(rq, rvs)) : C9_Steps(rq, rvs)[i].violated}

Min(S) == CHOOSE n \in S : \A m \in S : n <= m

\* C9: the error of a createReview is the error of the earliest precondition
\* the request violates, in the order job, recipient, job status, job parties,
\* role, existing review, payload; it succeeds only when it violates none.
C9_FirstFailureWins ==
    [][Submitted' =>
         LET bad == C9_Violated(last'.req, reviews)
         IN  IF bad = {}
             THEN last'.res.status = 201 \/ last'.res = Response(500, MsgNotifyFailed)
             ELSE last'.res = C9_Steps(last'.req, reviews)[Min(bad)].error]_vars

\* an admin's six-star submission for the open job without a freelancer
\* violates four preconditions and was answered with the job-status error
C9_Witness ==
    /\ Submitted
    /\ Cardinality(C9_Violated(last.req, reviews)) >= 4
    /\ last.req.body.recipient \in Users
    /\ last.res = Response(400, MsgNotCompleted)

\* C10: of a Review stored by a successful createReview, each category score
\* is the value the payload gave for it, or the payload's rating where the
\* payload gave none (payload numbers are in tenths, stored ones in units).
C10_CategoryScores ==
    Succeeded =>
        LET review == TheReview(last.res.review)
            body   == last.req.body
        IN  \A k \in Categories :
                review[k] * 10 = (IF body[k] # Undef THEN body[k].v ELSE body.rating.v)

\* C11: in every reachable state, after createReview and after updateReview
\* alike, the rating and the five category scores of every stored Review are
\* whole numbers from 1 to 5.
C11_ScoresInRange ==
    \A r \in reviews :
        /\ r.rating \in 1..5
        /\ \A k \in Categories : r[k] \in 1..5

\* updateReview has just changed the rating of a stored Review
C11_Witness ==
    /\ last.req.op = "updateReview"
    /\ last.res.status = 200
    /\ \E r \in reviews : r.id = last.res.review /\ r.rating = 3 /\ r.communication # 3

\* the spec's InvalidArgument, read off a response: a client error, as the
\* handlers answer a request they find wrong
InvalidArgument(r) == r.status = 400

\* a score of a request body within 1..5 (bodies hold tenths)
InRange(x) == x.t = "number" /\ x.v >= 10 /\ x.v <= 50

\* the rating or a supplied category score of the body is outside 1..5, or
\* its comment is shorter than 10 characters
PayloadRefused(body) ==
    \/ ~InRange(body.rating)
    \/ \E k \in Categories : body[k] # Undef /\ ~InRange(body[k])
    \/ body.comment < CommentMinLength

\* C12: a createReview that passes the checks of job, recipient, role and
\* existing review, and whose rating or supplied category score is outside
\* 1..5 or whose comment is shorter than 10 characters, is answered with the
\* validation error InvalidArgument (a 400, not the 500 of a failure of the
\* storage) and stores no Review.
C12_ValidationIsInvalidArgument ==
    [][(/\ Submitted'
        /\ createReviewChecks(last'.req, reviews) = Continue
        /\ PayloadRefused(last'.req.body))
       => (InvalidArgument(last'.res) /\ reviews' = reviews)]_vars

\* C13: whenever createReview has stored a Review it answers 201 with that
\* Review, whether or not the Notification for the recipient could be
\* created afterwards.
C13_NotificationNeverFailsCreation ==
    [][(Submitted' /\ reviews' # reviews)
       => (/\ last'.res.status = 201
           /\ \E r \in reviews' \ reviews : r.id = last'.res.review)]_vars

\* the number of reviews of recipient u whose field holds value
Holding(u, field, value) ==
    Cardinality({r \in reviews : r.recipient = u /\ r[field] = value})

\* the sum of a field over the reviews of recipient u, from the counts of
\* its values
Total(u, field) ==
    Holding(u, field, 1) + 2 * Holding(u, field, 2) + 3 * Holding(u, field, 3)
    + 4 * Holding(u, field, 4) + 5 * Holding(u, field, 5)

\* tenths is the mean of the field over the n reviews of recipient u rounded
\* to one decimal, a half going up: tenths - 1/2 <= 10 * mean < tenths + 1/2
IsRoundedMean(tenths, u, field, n) ==
    /\ 2 * tenths * n <= 20 * Total(u, field) + n
    /\ 20 * Total(u, field) + n < 2 * (tenths + 1) * n

\* C14: the statistics getUserReviews returns for a user are those of the
\* Reviews now stored with that recipient, private and reported ones
\* included and deleted ones not: totalReviews is their number, bucket k of
\* the distribution the number of them with rating k, the buckets add up to
\* totalReviews, averageRating and every category average is the mean rounded
\* to one decimal, a half going up; and with no such Review every value is 0
\* and the call succeeds.
C14_StatsAreRecomputation ==
    (last.req.op = "getUserReviews" /\ UserfindById(last.req.body.userId)) =>
        LET u     == last.req.body.userId
            n     == Cardinality({r \in reviews : r.recipient = u})
            stats == last.res.stats
            dist  == stats.ratingDistribution
        IN  /\ last.res.status = 200
            /\ stats.totalReviews = n
            /\ dist.oneStar = Holding(u, "rating", 1)
            /\ dist.twoStar = Holding(u, "rating", 2)
            /\ dist.threeStar = Holding(u, "rating", 3)
            /\ dist.fourStar = Holding(u, "rating", 4)
            /\ dist.fiveStar = Holding(u, "rating", 5)
            /\ dist.oneStar + dist.twoStar + dist.threeStar + dist.fourStar + dist.fiveStar = n
            /\ IF n = 0
               THEN /\ stats.averageRating = 0
                    /\ \A k \in Categories : stats.categoryAverages[k] = 0
               ELSE /\ IsRoundedMean(stats.averageRating, u, "rating", n)
                    /\ \A k \in Categories : IsRoundedMean(stats.categoryAverages[k], u, k, n)

\* the statistics of f were read while f had reviews rated 5, 5, 4, 3 and 5,
\* one of them private and reported, and after a review was deleted: the
\* average is 4.4, the total 5, the distribution 3, 1, 1, 0, 0
C14_Witness ==
    /\ last.req.op = "getUserReviews"
    /\ last.req.body.userId = "f"
    /\ Cardinality(reviews) < nextId - 1
    /\ Holding("f", "rating", 5) = 3
    /\ Holding("f", "rating", 4) = 1
    /\ Holding("f", "rating", 3) = 1
    /\ Holding("f", "isPublic", FALSE) >= 1
    /\ last.res.stats.averageRating = 44
    /\ last.res.stats.totalReviews = 5
    /\ last.res.stats.ratingDistribution =
          [fiveStar |-> 3, fourStar |-> 1, threeStar |-> 1, twoStar |-> 0, oneStar |-> 0]

\* helpfulVotes of the stored review with this _id
VotesOf(rvs, id) == (CHOOSE r \in rvs : r.id = id).helpfulVotes

\* slot p completes a markReviewAsHelpful in this step
Toggles(p) == pc[p] = "save" /\ pc'[p] = "idle"

\* C15: for every stored review and every user, two markReviewAsHelpful calls
\* of that user, one after the other, leave helpfulVotes with the members and
\* the length it had before the first; and a call that no other request
\* overlapped returns the length helpfulVotes has right after it.
C15_TwoTogglesRestore ==
    [][/\ \A r \in reviews : \A u \in Users :
             LET once  == [r EXCEPT !.helpfulVotes = helpfulVotesAfter(r, u)]
                 twice == helpfulVotesAfter(once, u)
             IN  /\ Range(twice) = Range(r.helpfulVotes)
                 /\ Len(twice) = Len(r.helpfulVotes)
       /\ \A p \in Procs : (Toggles(p) /\ req[p].review \in reviews) =>
             /\ last'.res.status = 200
             /\ last'.res.helpfulCount = Len(VotesOf(reviews', req[p].review.id))]_vars

\* C16: when no user has two markReviewAsHelpful calls in flight at once, a
\* call that overlapped with calls of other users succeeds, flips the
\* caller's membership and leaves every other user's membership as the
\* store has it.
C16_ConcurrentTogglesIndependent ==
    [][\A p \in Procs :
          LET u    == req[p].user
              id   == req[p].review.id
          IN  (Toggles(p) /\ ReviewfindById(reviews, id) # {})
              => /\ last'.res.status = 200
                 /\ (u \in Range(VotesOf(reviews', id))) = (u \notin Range(VotesOf(reviews, id)))
                 /\ Range(VotesOf(reviews', id)) \ {u} = Range(VotesOf(reviews, id)) \ {u}]_vars

\* C17: in every reachable state no user appears twice in the helpfulVotes of
\* a review, so its length, which markReviewAsHelpful returns as
\* helpfulCount, is the number of users who mark the review helpful.
C17_HelpfulVotesIsSet ==
    \A r \in reviews : Len(r.helpfulVotes) = Cardinality(Range(r.helpfulVotes))

\* the last exchange of the next state is a reportReview naming a stored review
Reporting == last'.req.op = "reportReview" /\ ReviewfindById(reviews, last'.req.body.id) # {}

ReportFields(r) == <<r.isReported, r.reportReason, r.reportedBy, r.reportedAt>>

\* a review with its report metadata blanked
Unreported(r) ==
    [r EXCEPT !.isReported = FALSE, !.reportReason = Null, !.reportedBy = Null, !.reportedAt = 0]

\* C18 as amended: reportReview answers 200 only to the recipient of the
\* review; called by its author or a third user it stores nothing and fails,
\* with Forbidden when a reason is given and with the "reason is required"
\* InvalidArgument when none is.
C18_OnlyRecipientReports ==
    [][Reporting =>
         LET r == TheReview(last'.req.body.id)
             u == last'.req.user
         IN  /\ last'.res.status = 200 => u = r.recipient
             /\ u # r.recipient =>
                   /\ reviews' = reviews
                   /\ IF last'.req.body.reason = Null
                      THEN InvalidArgument(last'.res) /\ last'.res.message = MsgReasonRequired
                      ELSE Forbidden(last'.res)]_vars

\* C18 as stated: reportReview answers 200 only to the recipient of the
\* review; called by its author or a third user it fails with Forbidden and
\* leaves isReported, reportReason, reportedBy and reportedAt as they were.
C18_Original ==
    [][Reporting =>
         LET r == TheReview(last'.req.body.id)
             u == last'.req.user
         IN  /\ last'.res.status = 200 => u = r.recipient
             /\ u # r.recipient =>
                   /\ Forbidden(last'.res)
                   /\ \A r2 \in reviews' : r2.id = r.id => ReportFields(r2) = ReportFields(r)]_vars

\* the author of a review its recipient has reported tried to report it and
\* was refused
C18_Witness ==
    /\ last.req.op = "reportReview"
    /\ last.res.status = 403
    /\ \E r \in reviews : /\ r.id = last.req.body.id
                           /\ r.reviewer = last.req.user
                           /\ r.isReported
                           /\ r.reportedBy = r.recipient

\* C19: a reportReview answered 200 leaves the review with isReported true,
\* the reason and the caller of this call as reportReason and reportedBy and
\* the time of this call as reportedAt, also when the review was reported
\* before; and no reportReview changes any other field of a review or the
\* reviews that are stored.
C19_ReportOverwritesMetadata ==
    [][Reporting =>
         LET r == TheReview(last'.req.body.id)
         IN  /\ {Unreported(r2) : r2 \in reviews'} = {Unreported(r1) : r1 \in reviews}
             /\ Cardinality(reviews') = Cardinality(reviews)
             /\ last'.res.status = 200 =>
                   \E r2 \in reviews' :
                       /\ r2.id = r.id
                       /\ r2.isReported
                       /\ r2.reportReason = last'.req.body.reason
                       /\ r2.reportedBy = last'.req.user
                       /\ r2.reportedAt \in Times]_vars

\* a review that has a helpful vote was reported at the latest time, for
\* the reason "other"
C19_Witness ==
    /\ last.req.op = "reportReview"
    /\ last.res.status = 200
    /\ \E r \in reviews : /\ r.id = last.req.body.id
                           /\ r.isReported
                           /\ r.reportReason = "other"
                           /\ r.reportedAt = MaxTime
                           /\ r.helpfulVotes # <<>>

\* C20: handleReportedReview with action approve, reject or delete answers
\* "This review has not been reported" exactly when the review's isReported
\* is false; a review that reportReview has flagged is taken up.
C20_RefusedIffNotReported ==
    [][(/\ last'.req.op = "handleReportedReview"
        /\ last'.req.body.action \in {"approve", "reject", "delete"}
        /\ ReviewfindById(reviews, last'.req.body.id) # {})
       => ((last'.res.message = MsgNotReported)
             <=> ~TheReview(last'.req.body.id).isReported)]_vars

\* the last exchange of the next state is a handleReportedReview naming a
\* stored review that reportReview has flagged
Moderating ==
    /\ last'.req.op = "handleReportedReview"
    /\ \E r \in reviews : r.id = last'.req.body.id /\ r.isReported

\* C21: handleReportedReview with action delete on a reported review removes
\* it from the store, so that findById finds nothing from then on, and
\* notifies its reviewer and its recipient; with action approve or reject the
\* review stays in the store.
C21_ModerationDeleteRemoves ==
    [][Moderating =>
         LET r      == TheReview(last'.req.body.id)
             action == last'.req.body.action
         IN  /\ action = "delete" =>
                   /\ ReviewfindById(reviews', r.id) = {}
                   /\ {r.reviewer, r.recipient} \subseteq {n.recipient : n \in last'.res.sent}
             /\ action \in {"approve", "reject"} => ReviewfindById(reviews', r.id) # {}]_vars

\* C22: on a reported review handleReportedReview with action approve clears
\* isReported and leaves isPublic as it is, and with action reject clears
\* isReported and sets isPublic to false; and getReportedReviews returns to an
\* admin exactly the reviews whose isReported is true, so neither review is
\* listed afterwards.
C22_ModerationResolvesReport ==
    [][/\ (Moderating /\ last'.req.body.action \in {"approve", "reject"}) =>
             LET r == TheReview(last'.req.body.id)
             IN  \E r2 \in reviews' :
                     /\ r2.id = r.id
                     /\ ~r2.isReported
                     /\ r2.isPublic = (IF last'.req.body.action = "approve" THEN r.isPublic ELSE FALSE)
       /\ (last'.req.op = "getReportedReviews" /\ last'.req.role = "admin") =>
             last'.res.reportedReviews = {r.id : r \in {x \in reviews' : x.isReported}}]_vars

\* C23: handleReportedReview with an action other than approve, reject and
\* delete, a missing one included, answers 400 "Invalid action", changes no
\* review and creates no notification, whether the review named exists, is
\* reported or not.
C23_UnknownActionRefused ==
    [][(last'.req.op = "handleReportedReview"
        /\ last'.req.body.action \notin {"approve", "reject", "delete"})
       => /\ InvalidArgument(last'.res)
          /\ last'.res.message = MsgInvalidAction
          /\ last'.res.sent = {}
          /\ reviews' = reviews]_vars

\* an admin sent no action for a reported review, and was refused
C23_Witness ==
    /\ last.req.op = "handleReportedReview"
    /\ last.req.body.action = Null
    /\ last.res.message = MsgInvalidAction
    /\ \E r \in reviews : r.id = last.req.body.id /\ r.isReported

\* the stored reviews that are gone in the next state
Removed == {r \in reviews : ReviewfindById(reviews', r.id) = {}}

\* A review leaves the store only in a deleteReview of its author or of an
\* admin or in a handleReportedReview with action delete, and a deleteReview
\* of anyone else is answered 403 and removes nothing.
DeletionPermissions ==
    /\ \A r \in Removed :
          \/ /\ last'.req.op = "deleteReview"
             /\ last'.req.body.id = r.id
             /\ (last'.req.user = r.reviewer \/ last'.req.role = "admin")
          \/ /\ last'.req.op = "handleReportedReview"
             /\ last'.req.body.id = r.id
             /\ last'.req.body.action = "delete"
    /\ \A r \in reviews :
          (/\ last'.req.op = "deleteReview"
           /\ last'.req.body.id = r.id
           /\ last'.req.user # r.reviewer
           /\ last'.req.role # "admin")
          => (Forbidden(last'.res) /\ reviews' = reviews)

\* C24: a review leaves the store only in a deleteReview of its author or of
\* an admin or in a moderation with action delete; a deleteReview of anyone
\* else is answered Forbidden and removes nothing; and a moderation of a
\* reported review with action reject leaves it in the store, hidden
\* (isPublic false).
C24_RemovedOnlyByAuthorOrAdmin ==
    [][/\ DeletionPermissions
       /\ (Moderating /\ last'.req.body.action = "reject") =>
             \E r2 \in reviews' : r2.id = last'.req.body.id /\ ~r2.isPublic]_vars

\* the part of C24 about deleteReview alone
C24_DeletionPart == [][DeletionPermissions]_vars

\* C25: no step of updateReview, reportReview, markReviewAsHelpful or
\* handleReportedReview, nor any other, changes the job, the reviewer or the
\* recipient of a stored review: a review has the same triple in every
\* state from its creation to its deletion.
C25_TripleNeverChanges ==
    [][\A r \in reviews : \A r2 \in reviews' : r2.id = r.id => Triple(r2) = Triple(r)]_vars

\* a review that was reported, marked helpful and then updated by its
\* author is still the review of f by c on J1
C25_Witness ==
    /\ last.req.op = "updateReview"
    /\ last.res.status = 200
    /\ \E r \in reviews : /\ r.id = last.req.body.id
                           /\ r.isReported
                           /\ r.helpfulVotes # <<>>
                           /\ r.rating = 3
                           /\ Triple(r) = <<"J1", "c", "f">>

\* the content of a review: its rating, comment, type and category scores
Content(r) ==
    <<r.rating, r.comment, r.type, [k \in Categories |-> r[k]]>>

\* C26: a stored review keeps its rating, comment, type and category scores
\* in every step, the steps of updateReview by its author included.
C26_ContentNeverChanges ==
    [][\A r \in reviews : \A r2 \in reviews' : r2.id = r.id => Content(r2) = Content(r)]_vars

C28_HiddenOnlyToRecipient ==
    (last.req.op = "getUserReviews" /\ last.res.status = 200) =>
        LET u      == last.req.body.userId
            shown  == {r \in reviews : r.id \in last.res.reviews}
            public == {r \in reviews : r.recipient = u /\ r.isPublic}
        IN  /\ \A r \in shown : r.recipient = u
            /\ last.req.user # u =>
                  /\ shown = public
                  /\ last.res.totalReviews = Cardinality(public)

\* f asks for the reviews of f and is shown one that is not public, next to
\* a public one
C28_Witness ==
    /\ last.req.op = "getUserReviews"
    /\ last.res.status = 200
    /\ last.req.user = "f"
    /\ last.req.body.userId = "f"
    /\ \E r \in reviews : r.id \in last.res.reviews /\ ~r.isPublic
    /\ \E r \in reviews : r.id \in last.res.reviews /\ r.isPublic
    /\ \E r \in reviews : r.recipient # "f"

\* a step of deactivateUser or updateUserStatus called by a user of role admin
Deactivating ==
    /\ last'.req.op \in {"deactivateUser", "updateUserStatus"}
    /\ last'.req.role = "admin"

\* C29: a step of deactivateUser or updateUserStatus called by an admin
\* leaves isActive of every other account of role admin as it was, and
\* never makes the caller's own account inactive.
C29_AdminsStayActive ==
    [][Deactivating =>
          /\ \A v \in Users \ {last'.req.user} :
                userRole[v] = "admin" => isActive'[v] = isActive[v]
          /\ isActive[last'.req.user] => isActive'[last'.req.user]]_vars

\* the part of C29 that deactivateUser alone keeps
C29_DeactivateUserPart ==
    [][last'.req.op = "deactivateUser" =>
          /\ \A v \in Users \ {last'.req.user} :
                userRole[v] = "admin" => isActive'[v] = isActive[v]
          /\ isActive[last'.req.user] => isActive'[last'.req.user]]_vars

\* a step of addResponse on an issue that exists
Responding ==
    /\ last'.req.op = "addResponse"
    /\ IssuefindById(last'.req.body.id) # {}

\* C30: a step of addResponse appends a response only when the caller is
\* the issue's owner, a user of role admin or the assignee; the step then
\* sets the status to open when the owner responds to a closed issue and
\* leaves the status as it was otherwise; a caller who is none of the three
\* and sends a message is answered 403, and a step answered 403 leaves the
\* issue, its responses and status included, as it was.
C30_ResponsesAndReopening ==
    [][Responding =>
          LET rq      == last'.req
              issue   == CHOOSE i \in issues : i.id = rq.body.id
              after   == CHOOSE i \in issues' : i.id = rq.body.id
              allowed == \/ rq.user = issue.submittedBy
                         \/ rq.role = "admin"
                         \/ rq.user = issue.assignedTo
          IN  /\ after.responses # issue.responses =>
                    /\ allowed
                    /\ Len(after.responses) = Len(issue.responses) + 1
                    /\ after.responses[Len(after.responses)].author = rq.user
                    /\ after.status = IF rq.user = issue.submittedBy /\ issue.status = "closed"
                                      THEN "open" ELSE issue.status
              /\ after.responses = issue.responses => after = issue
              /\ (~allowed /\ rq.body.message = "hello") => last'.res.status = 403
              /\ (allowed /\ rq.body.message = "hello") => after.responses # issue.responses
              /\ last'.res.status = 403 => issues' = issues]_vars

\* the owner's response has reopened an issue: only updateIssueStatus adds
\* an internal note, and here it never sets the status open
C30_Witness ==
    /\ last.req.op = "addResponse"
    /\ last.res.status = 200
    /\ \E i \in issues : /\ i.id = last.req.body.id
                          /\ i.submittedBy = last.req.user
                          /\ i.status = "open"
                          /\ i.internalNotes # <<>>
                          /\ Len(i.responses) = 2
                          /\ i.responses[1].author = "a"

====
